---- MODULE Spec2Model ----
(***************************************************************************)
(* Model of the submission form of "Ripple AI/src/App.tsx": the component  *)
(* App, its four useState cells, the form's onSubmit handler handleSubmit, *)
(* the two onChange handlers and the render that produces the closure the  *)
(* handlers run in.                                                        *)
(*                                                                         *)
(* React state and rendered output are kept apart. The hook cells          *)
(* (username, message, isLoading, status) change when a setter runs; the   *)
(* values a handler reads, and the disabled attributes of the controls,    *)
(* are those of the last render (rendered). Updates made synchronously in  *)
(* an event handler are flushed by React before the browser dispatches the *)
(* next event, so the handler actions end with the render. Updates made    *)
(* after an await are batched and rendered in a later task, so the render  *)
(* that follows a completion is a step of its own and events may come      *)
(* before it.                                                              *)
(***************************************************************************)
EXTENDS Integers, Sequences, FiniteSets

\* Largest number of fetch calls in one run.
MaxRequests == 2

\* The fetch target and options, lines 10 and 30-34.
API_URL == "http://localhost:5000/send-dm"

Method == "POST"

ContentType == "application/json"

\* Texts a user can type into the two inputs.
Usernames == {"", "bob"}

Messages == {"", "hi"}

\* JavaScript values a cell or a body field can hold: a string or undefined.
Undefined == [t |-> "undefined", v |-> ""]

Str(s) == [t |-> "string", v |-> s]

\* JavaScript truthiness, as used by ||, ! and && on these values.
Truthy(x) == x.t = "string" /\ x.v # ""

\* String conversion, as done by new Error(x).
StringOf(x) == IF x.t = "undefined" THEN "undefined" ELSE x.v

\* The status field of a parsed response body: absent, empty, or a text.
DataStatuses == {Undefined, Str(""), Str("Sent!"), Str("Rate limited")}

\* Values a rejected fetch or body parse can throw: Error objects with a
\* message, or a value that is not an Error.
NoThrow == [isError |-> FALSE, message |-> ""]

Thrown == {[isError |-> TRUE, message |-> "Failed to fetch"],
           [isError |-> TRUE, message |-> "Unexpected token"],
           [isError |-> FALSE, message |-> "boom"]}

\* username, message, isLoading, status: the useState cells of lines 13-19.
\* rendered: the values of the cells in the last render of App, which the
\*   handlers of that render and the disabled attributes read.
\* requests: the fetch calls made so far, in order; pc is where the call of
\*   handleSubmit that made it stands: "fetch" (line 30), "json" (line 41),
\*   "fulfilled" (returned) ; ok is response.ok once the fetch has resolved.
\* event: the last handler or continuation that ran, with the value it got.
VARIABLES username, message, isLoading, status, rendered, requests, event

vars == <<username, message, isLoading, status, rendered, requests, event>>

\* What a render of App captures from the four cells.
Snapshot(u, m, l, s) == [username |-> u, message |-> m, isLoading |-> l, status |-> s]

\* The last handler that ran; seq flips each time so that a step of a handler
\* can be told from a render.
Event(k, r, d, t) == [kind |-> k, req |-> r, data |-> d, thrown |-> t, seq |-> 1 - event.seq]

\* disabled={isLoading} on the two inputs and on the submit button.
\* Variant: inputs without the disabled attribute.
InputNeverDisabled == FALSE

InputDisabled == rendered.isLoading

SubmitDisabled == rendered.isLoading

\* {status && <p>...</p>}: the status paragraph is shown iff status is truthy.
StatusShown == Truthy(rendered.status)

\* Line 24: the early return of handleSubmit.
\* Variants: the guard without its isLoading test, and without its message test.
SubmitGuardNoLoading(msg, loading) == msg = ""

SubmitGuardNoEmpty(msg, loading) == loading

SubmitGuard(msg, loading) == msg = "" \/ loading

\* Lines 30-39: the request handleSubmit issues.
Request(u, m) ==
    [url |-> API_URL, method |-> Method, contentType |-> ContentType,
     body |-> [username |-> u, message |-> m], pc |-> "fetch", ok |-> FALSE]

\* Line 45: the message of the Error thrown for a failure status.
\* Variant: no fallback text.
ErrorTextNoFallback(d) == StringOf(d)

ErrorText(d) == IF Truthy(d) THEN StringOf(d) ELSE "An error occurred."

\* Lines 52-57: the catch block.
\* Variant: no instanceof test.
CatchStatusAlwaysMessage(t) == Str("Error: " \o t.message)

CatchStatus(t) ==
    IF t.isError THEN Str("Error: " \o t.message)
    ELSE Str("An unknown error occurred.")

\* Lines 49-50: the success path.
\* Variant: the status text decorated.
SuccessStatusPrefixed(d) == Str("Status: " \o StringOf(d))

SuccessStatus(d) == d

SuccessMessage(m) == ""

\* Lines 58-61: the finally block; outcome is "success" or "caught".
\* Variant: the flag cleared at the end of the try block only.
LoadingAfterTryOnly(outcome) == IF outcome = "success" THEN FALSE ELSE isLoading

LoadingAfter(outcome) == FALSE

Pending == {r \in DOMAIN requests : requests[r].pc \in {"fetch", "json"}}

Init ==
    /\ username = ""
    /\ message = ""
    /\ isLoading = FALSE
    /\ status = Str("")
    /\ rendered = Snapshot("", "", FALSE, Str(""))
    /\ requests = <<>>
    /\ event = [kind |-> "init", req |-> 0, data |-> Undefined, thrown |-> NoThrow, seq |-> 0]

\* Line 93: onChange of the username input, then the flush of the update.
ChangeUsername(v) ==
    /\ ~InputDisabled
    /\ username' = v
    /\ rendered' = Snapshot(v, message, isLoading, status)
    /\ event' = Event("changeUsername", 0, Undefined, NoThrow)
    /\ UNCHANGED <<message, isLoading, status, requests>>

\* Line 101: onChange of the message input, then the flush of the update.
ChangeMessage(v) ==
    /\ ~InputDisabled
    /\ message' = v
    /\ rendered' = Snapshot(username, v, isLoading, status)
    /\ event' = Event("changeMessage", 0, Undefined, NoThrow)
    /\ UNCHANGED <<username, isLoading, status, requests>>

\* Lines 22-39: handleSubmit up to its first await. It reads message, isLoading
\* and username of the render it was created in.
HandleSubmit ==
    IF SubmitGuard(rendered.message, rendered.isLoading)
    THEN /\ event' = Event("submit", 0, Undefined, NoThrow)
         /\ UNCHANGED <<username, message, isLoading, status, rendered, requests>>
    ELSE /\ Len(requests) < MaxRequests
         /\ isLoading' = TRUE
         /\ status' = Str("Sending...")
         /\ requests' = Append(requests, Request(rendered.username, rendered.message))
         /\ rendered' = Snapshot(username, message, TRUE, Str("Sending..."))
         /\ event' = Event("submit", Len(requests) + 1, Undefined, NoThrow)
         /\ UNCHANGED <<username, message>>

\* Line 30: the fetch promise resolves with a response of either status class.
FetchResolve(r, ok) ==
    /\ r \in DOMAIN requests
    /\ requests[r].pc = "fetch"
    /\ requests' = [requests EXCEPT ![r].pc = "json", ![r].ok = ok]
    /\ event' = Event("fetchResolve", r, Undefined, NoThrow)
    /\ UNCHANGED <<username, message, isLoading, status, rendered>>

\* Lines 52-61 after a rejected await: catch, then finally.
\* Variant: the catch block sends the request again.
CaughtRetry(r, t, kind) ==
    /\ status' = CatchStatus(t)
    /\ isLoading' = TRUE
    /\ requests' = Append([requests EXCEPT ![r].pc = "fulfilled"],
                          Request(requests[r].body.username, requests[r].body.message))
    /\ event' = Event(kind, r, Undefined, t)
    /\ UNCHANGED <<username, message, rendered>>

Caught(r, t, kind) ==
    /\ status' = CatchStatus(t)
    /\ isLoading' = LoadingAfter("caught")
    /\ requests' = [requests EXCEPT ![r].pc = "fulfilled"]
    /\ event' = Event(kind, r, Undefined, t)
    /\ UNCHANGED <<username, message, rendered>>

\* Line 30: the fetch promise rejects.
FetchReject(r, t) ==
    /\ r \in DOMAIN requests
    /\ requests[r].pc = "fetch"
    /\ Caught(r, t, "fetchReject")

\* Line 41: response.json() rejects.
JsonReject(r, t) ==
    /\ r \in DOMAIN requests
    /\ requests[r].pc = "json"
    /\ Caught(r, t, "jsonReject")

\* Lines 41-61: response.json() resolves with a body whose status field is d.
JsonResolve(r, d) ==
    /\ r \in DOMAIN requests
    /\ requests[r].pc = "json"
    /\ IF ~requests[r].ok
       THEN /\ status' = CatchStatus([isError |-> TRUE, message |-> ErrorText(d)])
            /\ isLoading' = LoadingAfter("caught")
            /\ UNCHANGED message
       ELSE /\ status' = SuccessStatus(d)
            /\ message' = SuccessMessage(message)
            /\ isLoading' = LoadingAfter("success")
    /\ requests' = [requests EXCEPT ![r].pc = "fulfilled"]
    /\ event' = Event("jsonResolve", r, d, NoThrow)
    /\ UNCHANGED <<username, rendered>>

\* Lines 41-61: response.json() resolves with null, which has no properties:
\* reading data.status (line 45 or 49) throws a TypeError inside the try.
NullBodyError == [isError |-> TRUE, message |-> "Cannot read properties of null (reading 'status')"]

JsonResolveNull(r) ==
    /\ r \in DOMAIN requests
    /\ requests[r].pc = "json"
    /\ Caught(r, NullBodyError, "jsonResolveNull")

\* Lines 12-118: React runs App again with the current cells.
Render ==
    /\ rendered # Snapshot(username, message, isLoading, status)
    /\ rendered' = Snapshot(username, message, isLoading, status)
    /\ UNCHANGED <<username, message, isLoading, status, requests, event>>

Next ==
    \/ \E v \in Usernames : ChangeUsername(v)
    \/ \E v \in Messages : ChangeMessage(v)
    \/ HandleSubmit
    \/ \E r \in 1..MaxRequests, ok \in BOOLEAN : FetchResolve(r, ok)
    \/ \E r \in 1..MaxRequests, t \in Thrown : FetchReject(r, t)
    \/ \E r \in 1..MaxRequests, t \in Thrown : JsonReject(r, t)
    \/ \E r \in 1..MaxRequests, d \in DataStatuses : JsonResolve(r, d)
    \/ \E r \in 1..MaxRequests : JsonResolveNull(r)
    \/ Render

Spec == Init /\ [][Next]_vars

(***************************************************************************)
(* Properties                                                              *)
(***************************************************************************)

\* The cells and the last render agree: no update is waiting for a render.
Committed == rendered = Snapshot(username, message, isLoading, status)

\* This step ran a handler or a continuation (a render leaves event alone).
HandlerStep == event'.seq # event.seq

SubmitStep == HandlerStep /\ event'.kind = "submit"

Completions == {"fetchReject", "jsonReject", "jsonResolve", "jsonResolveNull"}

\* C1: at most one request is outstanding in every reachable state, whatever
\* the order of submit events, renders and completions.
C1_AtMostOneOutstanding == Cardinality(Pending) <= 1

\* A submit event arrived while a request was outstanding and the message
\* field was non-empty, and it issued nothing.
C1_Witness ==
    /\ event.kind = "submit"
    /\ event.req = 0
    /\ rendered.message # ""
    /\ Cardinality(Pending) = 1

\* C2: a submit event fired while the message field is empty issues no request
\* and changes none of status, isLoading, username, message.
C2_EmptySubmitChangesNothing ==
    [][(SubmitStep /\ rendered.message = "")
         => UNCHANGED <<username, message, isLoading, status, rendered, requests>>]_vars

\* An empty-message submit was handled with the control enabled, after an
\* earlier attempt left a status text and with an identifier typed in.
C2_Witness ==
    /\ event.kind = "submit"
    /\ event.req = 0
    /\ rendered.message = ""
    /\ ~rendered.isLoading
    /\ Truthy(status)
    /\ username # ""

\* C3: every completion (success, failure status, thrown value) leaves
\* isLoading false; with no request outstanding the flag is false, and once
\* rendered the submit button and the inputs are enabled.
C3_CompletionClearsLoading ==
    /\ event.kind \in Completions => isLoading = FALSE
    /\ Pending = {} => isLoading = FALSE
    /\ (Pending = {} /\ Committed) => (~SubmitDisabled /\ ~InputDisabled)

\* A request ended by a thrown non-Error value, and the render that followed
\* enabled the button again.
C3_Witness ==
    /\ event.kind = "jsonReject"
    /\ ~event.thrown.isError
    /\ Committed
    /\ ~SubmitDisabled

\* C4: after a success response whose body has status s, the status cell is s
\* itself, the message is empty and the identifier is the one that was sent.
C4_SuccessShowsStatusVerbatim ==
    (event.kind = "jsonResolve" /\ requests[event.req].ok) =>
        /\ status = event.data
        /\ message = ""
        /\ username = requests[event.req].body.username
        /\ Committed => (rendered.status = event.data /\ rendered.message = "")

\* The success response {"status": "Sent!"} for identifier bob has been
\* rendered.
C4_Witness ==
    /\ event.kind = "jsonResolve"
    /\ requests[event.req].ok
    /\ event.data = Str("Sent!")
    /\ requests[event.req].body.username = "bob"
    /\ Committed
    /\ StatusShown

\* C5: after a failure response the status cell is "Error: " followed by the
\* body's status text, or by "An error occurred." when that is absent or
\* empty; the message and the identifier are the ones that were sent.
C5_FailureShowsError ==
    (event.kind = "jsonResolve" /\ ~requests[event.req].ok) =>
        /\ status = Str("Error: " \o
                        (IF event.data.t = "string" /\ event.data.v # ""
                         THEN event.data.v ELSE "An error occurred."))
        /\ message = requests[event.req].body.message
        /\ message # ""
        /\ username = requests[event.req].body.username

\* A failure response without a status field has been handled.
C5_Witness ==
    /\ event.kind = "jsonResolve"
    /\ ~requests[event.req].ok
    /\ event.data = Undefined
    /\ status = Str("Error: An error occurred.")

\* C6: after a thrown value the status cell is "Error: " followed by the
\* message of an Error, or "An unknown error occurred." for any other value;
\* message and identifier are the ones sent and handleSubmit's promise is
\* fulfilled, not rejected.
C6_ThrownShowsError ==
    event.kind \in {"fetchReject", "jsonReject"} =>
        /\ status = (IF event.thrown.isError
                     THEN Str("Error: " \o event.thrown.message)
                     ELSE Str("An unknown error occurred."))
        /\ message = requests[event.req].body.message
        /\ username = requests[event.req].body.username
        /\ requests[event.req].pc = "fulfilled"

\* fetch rejected with a value that is not an Error.
C6_Witness ==
    /\ event.kind = "fetchReject"
    /\ ~event.thrown.isError
    /\ status = Str("An unknown error occurred.")

\* C7: once a submit has been accepted the status text is never empty or
\* absent again, whatever the server answers.
C7_StatusNeverCleared == Len(requests) > 0 => Truthy(status)

\* C8: a request is issued exactly by a submit event handled with a non-empty
\* message field and the control enabled, when nothing is outstanding; it is
\* one POST to API_URL whose body holds the two field values of that moment;
\* no other step issues a request or alters one already issued.
C8_OneRequestPerAcceptedSubmit ==
    [][LET n == Len(requests)
           accepted == SubmitStep /\ rendered.message # "" /\ ~rendered.isLoading
       IN  /\ accepted =>
                /\ Len(requests') = n + 1
                /\ Pending = {}
                /\ requests'[n + 1].body = [username |-> username, message |-> message]
                /\ requests'[n + 1].body = [username |-> rendered.username,
                                            message |-> rendered.message]
                /\ requests'[n + 1].method = "POST"
                /\ requests'[n + 1].url = API_URL
                /\ requests'[n + 1].contentType = "application/json"
           /\ Len(requests') # n => accepted
           /\ \A r \in 1..n : requests'[r].body = requests[r].body
      ]_vars

\* A second request was issued after the first ended in an error.
C8_Witness ==
    /\ Len(requests) = 2
    /\ requests[1].pc = "fulfilled"
    /\ requests[2].pc = "fetch"
    /\ event.kind = "submit"
    /\ event.req = 2

\* C9: while a request is outstanding isLoading is true, the status is the
\* sending text and button and inputs are disabled; a step that completes no
\* request changes none of this and issues nothing; isLoading goes from true
\* to false only in a step that completes a request.
C9_Hung == Pending # {} =>
    /\ isLoading
    /\ status = Str("Sending...")
    /\ SubmitDisabled
    /\ InputDisabled

C9_OnlyCompletionLeavesInFlight ==
    [][/\ C9_Hung
       /\ C9_Hung'
       /\ (Pending # {} /\ \A r \in Pending : requests'[r].pc # "fulfilled")
            => /\ Len(requests') = Len(requests)
               /\ UNCHANGED <<username, message, isLoading, status, rendered>>
       /\ (isLoading /\ ~isLoading')
            => \E r \in Pending : requests'[r].pc = "fulfilled"
      ]_vars

\* A submit event was handled while the response body was still awaited.
C9_Witness ==
    /\ event.kind = "submit"
    /\ event.req = 0
    /\ \E r \in Pending : requests[r].pc = "json"
    /\ isLoading

\* C10: while a request is outstanding both inputs are disabled and both
\* fields, as stored and as rendered, hold the values sent in its body.
C10_FieldsFrozenWhileOutstanding ==
    \A r \in Pending :
        /\ InputDisabled
        /\ username = requests[r].body.username
        /\ message = requests[r].body.message
        /\ rendered.username = requests[r].body.username
        /\ rendered.message = requests[r].body.message

\* A request for identifier bob is waiting for its response body.
C10_Witness ==
    \E r \in Pending :
        /\ requests[r].pc = "json"
        /\ requests[r].ok
        /\ requests[r].body.username = "bob"

====
